---- MODULE Spec2Model ----
(***************************************************************************)
(* Model of electron_magnetic_bottle.py: the analysis script that loads    *)
(* one run of magnetic-bottle time-of-flight data, separates foreground    *)
(* from background shots, averages them, reads the retardation voltage,    *)
(* fits the time-of-flight -> kinetic-energy calibration and transforms    *)
(* the averaged waveform to the energy coordinate and back.                *)
(*                                                                         *)
(* The script is one linear pipeline; each stage of it is one action and   *)
(* pc is the stage that runs next.  The plotting calls and the rebinning   *)
(* cell at the end of the script (scipy quadrature on a 1000 point grid)   *)
(* are outside the model: the pipeline of the model ends after the         *)
(* backward transform.                                                     *)
(*                                                                         *)
(* Floating point numbers are modelled as exact rationals <<n, d>> in      *)
(* lowest terms with d > 0; the non-finite values of IEEE arithmetic are   *)
(* the pairs with d = 0: NaN = <<0, 0>>, +inf = <<1, 0>>, -inf = <<-1, 0>>.*)
(***************************************************************************)
EXTENDS Integers, Sequences, FiniteSets, TLC

VARIABLES
    h5,                  \* the .h5 file: dataset name -> content (the names present)
    pc,                  \* the stage of the script that runs next
    raised,              \* the exception that ended the run, "none" while it runs
    stdout,              \* the lines printed so far
    bunches,             \* bunch number of every shot
    background_period,   \* the periodicity marker
    eon_tof_all,         \* one waveform per shot
    background_shots,    \* boolean mask over the shots
    foreground_shots,    \* boolean mask over the shots
    eon_tof_fore,        \* waveforms of the foreground shots
    eon_tof_back,        \* waveforms of the background shots
    avg_eon_tof_fore,
    avg_eon_tof_back,
    avg_eon_tof,         \* background subtracted, sign flipped average
    retardation_voltage,
    propconst,           \* fitted C
    timezero_fit,        \* fitted T0 (the global timezero after line 77)
    ke0,                 \* fitted KE0
    tof_ns,
    eke_ev,
    avg_eon_eke,
    _tof_ns,
    _avg_eon_tof

vars == <<h5, pc, raised, stdout, bunches, background_period, eon_tof_all,
          background_shots, foreground_shots, eon_tof_fore, eon_tof_back,
          avg_eon_tof_fore, avg_eon_tof_back, avg_eon_tof, retardation_voltage,
          propconst, timezero_fit, ke0, tof_ns, eke_ev, avg_eon_eke,
          _tof_ns, _avg_eon_tof>>

loadVars  == <<bunches, background_period, eon_tof_all>>
sepVars   == <<background_shots, foreground_shots, eon_tof_fore, eon_tof_back>>
avgVars   == <<avg_eon_tof_fore, avg_eon_tof_back, avg_eon_tof>>
fitVars   == <<propconst, timezero_fit, ke0>>
ekeVars   == <<tof_ns, eke_ev, avg_eon_eke>>
backVars  == <<_tof_ns, _avg_eon_tof>>

(***************************************************************************)
(* Bounds of the model.                                                    *)
(***************************************************************************)
MaxShots  == 2    \* shots (acquisitions) in the file
MaxBunch  == 3    \* largest bunch number
MaxPeriod == 2    \* largest periodicity marker
MaxShape  == 1    \* waveform shapes 0..MaxShape
MaxTail   == 2    \* samples of a long record after sample number timezero
MaxVolt   == 1    \* voltages 0..MaxVolt
MaxGrid   == 250  \* candidates of the fit: C = 1 / (GridUnit * m), m in 1..MaxGrid

(***************************************************************************)
(* Arithmetic on the rationals and the non-finite values.                  *)
(***************************************************************************)
Abs(i) == IF i < 0 THEN -i ELSE i

Sign(i) == IF i < 0 THEN -1 ELSE IF i > 0 THEN 1 ELSE 0

RECURSIVE Gcd(_, _)
Gcd(a, b) == IF b = 0 THEN a ELSE Gcd(b, a % b)

Lcm(a, b) == (a \div Gcd(a, b)) * b

NaN == <<0, 0>>

Rat(n, d) ==
    IF d = 0 THEN <<Sign(n), 0>>
    ELSE LET g == Gcd(Abs(n), Abs(d))
         IN  <<Sign(d) * (n \div g), Abs(d) \div g>>

FromInt(i) == <<i, 1>>

isfinite(x) == x[2] # 0

isnan(x) == x = NaN

RNeg(x) == <<-x[1], x[2]>>

RAdd(x, y) ==
    IF isfinite(x) /\ isfinite(y)
    THEN LET l == Lcm(x[2], y[2])
         IN  Rat(x[1] * (l \div x[2]) + y[1] * (l \div y[2]), l)
    ELSE IF isnan(x) \/ isnan(y) THEN NaN
    ELSE IF ~isfinite(x) /\ ~isfinite(y)
         THEN (IF x = y THEN x ELSE NaN)
    ELSE IF isfinite(x) THEN y ELSE x

RSub(x, y) == RAdd(x, RNeg(y))

RMul(x, y) ==
    IF isfinite(x) /\ isfinite(y)
    THEN LET g1 == Gcd(Abs(x[1]), y[2])
             g2 == Gcd(Abs(y[1]), x[2])
         IN  Rat((x[1] \div g1) * (y[1] \div g2), (x[2] \div g2) * (y[2] \div g1))
    ELSE IF isnan(x) \/ isnan(y) THEN NaN
    ELSE <<Sign(x[1]) * Sign(y[1]), 0>>

RInv(x) ==
    IF isnan(x) THEN NaN
    ELSE IF ~isfinite(x) THEN <<0, 1>>
    ELSE IF x[1] = 0 THEN <<1, 0>>
    ELSE Rat(x[2], x[1])

RDiv(x, y) == RMul(x, RInv(y))

RECURSIVE RPow(_, _)
RPow(x, k) == IF k = 0 THEN <<1, 1>> ELSE RMul(x, RPow(x, k - 1))

\* x < y; every comparison with NaN is false
RLess(x, y) ==
    IF isnan(x) \/ isnan(y) THEN FALSE
    ELSE IF isfinite(x) /\ isfinite(y)
    THEN LET l == Lcm(x[2], y[2])
         IN  x[1] * (l \div x[2]) < y[1] * (l \div y[2])
    ELSE IF ~isfinite(x) /\ ~isfinite(y) THEN x[1] < y[1]
    ELSE IF isfinite(x) THEN y[1] > 0 ELSE x[1] < 0

RLeq(x, y) == RLess(x, y) \/ (x = y /\ ~isnan(x))

RAbs(x) == <<Abs(x[1]), x[2]>>

\* largest r with r * r <= n
ISqrt(n) == CHOOSE r \in 0..n : r * r <= n /\ (r + 1) * (r + 1) > n

\* np.sqrt: NaN below zero; exact on the squares of rationals, otherwise
\* rounded down to a multiple of 1/d
RSqrt(x) ==
    IF isnan(x) THEN NaN
    ELSE IF x[1] < 0 THEN NaN
    ELSE IF ~isfinite(x) THEN x
    ELSE IF ISqrt(x[1]) * ISqrt(x[1]) = x[1] /\ ISqrt(x[2]) * ISqrt(x[2]) = x[2]
         THEN Rat(ISqrt(x[1]), ISqrt(x[2]))
    ELSE Rat(ISqrt(x[1] * x[2]), x[2])

RECURSIVE Sum(_)
Sum(s) == IF s = <<>> THEN 0 ELSE Head(s) + Sum(Tail(s))

\* a[mask] for a boolean mask of the same length: the elements at the true
\* positions, in their order
BoolIndex(a, mask) ==
    LET idx == {i \in 1..Len(a) : mask[i]}
    IN  [j \in 1..Cardinality(idx) |->
            a[CHOOSE i \in idx : Cardinality({m \in idx : m <= i}) = j]]

ReverseDropped(a) == a

\* a[::-1]
Reverse(a) == [i \in 1..Len(a) |-> a[Len(a) + 1 - i]]

(***************************************************************************)
(* The file.                                                               *)
(***************************************************************************)
VoltageFields == << "endstation/MagneticBottle/voltage_ch1",
                    "endstation/MagneticBottle/voltage_ch2",
                    "endstation/MagneticBottle/voltage_ch3",
                    "endstation/MagneticBottle/ch1_is_enabled",
                    "endstation/MagneticBottle/ch2_is_enabled",
                    "endstation/MagneticBottle/ch3_is_enabled" >>

timezero == 5000

\* a digitizer record of n samples; sample number t is element t + 1
Waveform(shape, n) == [i \in 1..n |-> ((i + shape) % 3) - 1]

\* bunch numbers grow along the run
BunchSeqs ==
    {b \in [1..MaxShots -> 0..MaxBunch] : \A i \in 1..(MaxShots - 1) : b[i] < b[i + 1]}

ShortCount == MaxTail
LongCount  == timezero + 1 + MaxTail

DataGroup(b, N, shapes, n) ==
    [x \in {"bunches", "Background_Period", "digitizer/channel3"} |->
        CASE x = "bunches" -> b
          [] x = "Background_Period" -> N
          [] x = "digitizer/channel3" -> [i \in 1..MaxShots |-> Waveform(shapes[i], n)]]

\* all six fields, voltages v and enable flags on
FullBottle(v, on) ==
    [x \in {VoltageFields[i] : i \in 1..6} |->
        LET i == CHOOSE j \in 1..6 : VoltageFields[j] = x
        IN  IF i <= 3 THEN v[i] ELSE on[i - 3]]

Restrict(f, S) == [x \in S |-> f[x]]

\* every group with all six fields, and the groups that lack some of them
BottleGroups ==
    LET full == {FullBottle(v, on) : v \in [1..3 -> 0..MaxVolt], on \in [1..3 -> 0..1]}
        one  == FullBottle([i \in 1..3 |-> MaxVolt], [i \in 1..3 |-> 1])
    IN  full \cup {Restrict(one, S) : S \in (SUBSET DOMAIN one) \ {DOMAIN one}}

\* short records (every sample at or before time zero) with every voltage group,
\* long records with the voltage groups of the reference setup
ShortFiles ==
    {DataGroup(b, N, [i \in 1..MaxShots |-> 0], ShortCount) @@ g :
        b \in BunchSeqs, N \in 1..MaxPeriod, g \in BottleGroups}

LongBottleGroups ==
    {Restrict(FullBottle(<<0, 0, 0>>, <<0, 0, 0>>), {}),
     FullBottle([i \in 1..3 |-> MaxVolt], <<1, 0, 0>>),
     FullBottle([i \in 1..3 |-> MaxVolt], <<1, 1, 0>>)}

LongFiles ==
    {DataGroup(b, N, sh, LongCount) @@ g :
        b \in {[i \in 1..MaxShots |-> first + i - 1] : first \in 0..1},
        N \in 1..MaxPeriod,
        sh \in {x \in [1..MaxShots -> 0..MaxShape] : x[1] = 0},
        g \in LongBottleGroups}

\* a file without one of the datasets the script needs
BrokenFiles ==
    LET f == CHOOSE x \in ShortFiles : TRUE
    IN  {Restrict(f, DOMAIN f \ {x}) : x \in {"bunches", "Background_Period", "digitizer/channel3"}}

Files == ShortFiles \cup LongFiles \cup BrokenFiles

Unbound == "unbound"

Init ==
    /\ h5 \in Files
    /\ pc = "load"
    /\ raised = "none"
    /\ stdout = <<>>
    /\ bunches = Unbound /\ background_period = Unbound /\ eon_tof_all = Unbound
    /\ background_shots = Unbound /\ foreground_shots = Unbound
    /\ eon_tof_fore = Unbound /\ eon_tof_back = Unbound
    /\ avg_eon_tof_fore = Unbound /\ avg_eon_tof_back = Unbound /\ avg_eon_tof = Unbound
    /\ retardation_voltage = Unbound
    /\ propconst = Unbound /\ timezero_fit = Unbound /\ ke0 = Unbound
    /\ tof_ns = Unbound /\ eke_ev = Unbound /\ avg_eon_eke = Unbound
    /\ _tof_ns = Unbound /\ _avg_eon_tof = Unbound

(***************************************************************************)
(* Lines 14-18: read the three datasets; a missing one raises KeyError.    *)
(***************************************************************************)
LoadData ==
    /\ pc = "load"
    /\ IF {"bunches", "Background_Period", "digitizer/channel3"} \subseteq DOMAIN h5
       THEN /\ bunches' = h5["bunches"]
            /\ background_period' = h5["Background_Period"]
            /\ eon_tof_all' = h5["digitizer/channel3"]
            /\ pc' = "separate"
            /\ UNCHANGED raised
       ELSE /\ raised' = "KeyError"
            /\ pc' = "raised"
            /\ UNCHANGED loadVars
    /\ UNCHANGED <<h5, stdout, sepVars, avgVars, retardation_voltage, fitVars,
                   ekeVars, backVars>>

(***************************************************************************)
(* Lines 21-24: separate foreground from background.                       *)
(***************************************************************************)
BackgroundMask(b, N) == [i \in 1..Len(b) |-> b[i] % N = 0]

InvertDropped(mask) == mask

Invert(mask) == [i \in 1..Len(mask) |-> ~mask[i]]

SeparateShots ==
    /\ pc = "separate"
    /\ background_shots' = BackgroundMask(bunches, background_period)
    /\ foreground_shots' = Invert(background_shots')
    /\ eon_tof_fore' = BoolIndex(eon_tof_all, foreground_shots')
    /\ eon_tof_back' = BoolIndex(eon_tof_all, background_shots')
    /\ pc' = "average"
    /\ UNCHANGED <<h5, raised, stdout, loadVars, avgVars, retardation_voltage,
                   fitVars, ekeVars, backVars>>

(***************************************************************************)
(* Lines 26-29: average, subtract, flip the sign.                          *)
(***************************************************************************)
\* np.average(a, axis=0) of the shots a, each n samples long: the mean of an
\* empty set of shots is NaN in every sample (numpy warns, it does not raise)
Average(a, n) ==
    [t \in 1..n |->
        IF Len(a) = 0 THEN NaN
        ELSE Rat(Sum([k \in 1..Len(a) |-> a[k][t]]), Len(a))]

Subtract(x, y) == [t \in 1..Len(x) |-> RSub(x[t], y[t])]

DivideBy(x, c) == [t \in 1..Len(x) |-> RDiv(x[t], FromInt(c))]

SampleCount(a) == IF Len(a) = 0 THEN 0 ELSE Len(a[1])

AverageShots ==
    /\ pc = "average"
    /\ avg_eon_tof_fore' = Average(eon_tof_fore, SampleCount(eon_tof_all))
    /\ avg_eon_tof_back' = Average(eon_tof_back, SampleCount(eon_tof_all))
    /\ avg_eon_tof' = DivideBy(Subtract(avg_eon_tof_fore', avg_eon_tof_back'), -1)
    /\ pc' = "voltage"
    /\ UNCHANGED <<h5, raised, stdout, loadVars, sepVars, retardation_voltage,
                   fitVars, ekeVars, backVars>>

(***************************************************************************)
(* Lines 45-57: the retardation voltage from the optional fields; any      *)
(* exception of the reads is caught, printed and replaced by 0.            *)
(***************************************************************************)
\* the first field, in the order of the reads, that the file does not hold;
\* 0 when it holds all six
FirstMissing(f) ==
    IF \A i \in 1..6 : VoltageFields[i] \in DOMAIN f THEN 0
    ELSE CHOOSE i \in 1..6 :
            /\ VoltageFields[i] \notin DOMAIN f
            /\ \A j \in 1..(i - 1) : VoltageFields[j] \in DOMAIN f

RetardationSumAllAdded(f) ==
    f[VoltageFields[1]] * f[VoltageFields[4]] + f[VoltageFields[2]] * f[VoltageFields[5]]
        + f[VoltageFields[3]] * f[VoltageFields[6]]

RetardationSum(f) ==
    LET voltage_1    == f[VoltageFields[1]]
        voltage_2    == f[VoltageFields[2]]
        voltage_3    == f[VoltageFields[3]]
        voltage_1_on == f[VoltageFields[4]]
        voltage_2_on == f[VoltageFields[5]]
        voltage_3_on == f[VoltageFields[6]]
    IN  voltage_1 * voltage_1_on + voltage_2 * voltage_2_on - voltage_3 * voltage_3_on

FallbackVoltage == 0

ReadRetardationVoltage ==
    /\ pc = "voltage"
    /\ IF FirstMissing(h5) = 0
       THEN /\ retardation_voltage' = RetardationSum(h5)
            /\ UNCHANGED stdout
       ELSE /\ stdout' = stdout \o
                <<"Cannot determine retardation voltage from files. Following exception occured:",
                  VoltageFields[FirstMissing(h5)]>>
            /\ retardation_voltage' = FallbackVoltage
    /\ pc' = "fit"
    /\ UNCHANGED <<h5, raised, loadVars, sepVars, avgVars, fitVars, ekeVars, backVars>>

(***************************************************************************)
(* Lines 34-43 and 59-78: the calibration fit.                             *)
(***************************************************************************)
tof_peaks_ns == <<5800, 6100>>
eke_peaks_ev == <<20, 10>>

\* ke = 1 / (C * (tof - T0)**2) + KE0, for every element of tof
ke_fit_model(params, tof) ==
    [i \in 1..Len(tof) |->
        RAdd(RInv(RMul(params.C, RPow(RSub(FromInt(tof[i]), params.T0), 2))),
             params.KE0)]

residuals(params, x, y) ==
    LET m == ke_fit_model(params, x)
    IN  [i \in 1..Len(x) |-> RSub(FromInt(y[i]), m[i])]

RECURSIVE RSumSq(_)
RSumSq(r) == IF r = <<>> THEN <<0, 1>> ELSE RAdd(RMul(Head(r), Head(r)), RSumSq(Tail(r)))

\* lmfit clips the initial value of a parameter into its bounds
ClipMin(v, min) == IF v < min THEN min ELSE v

\* ('C', 1.2e-6, True, 0, None), ('T0', timezero, False, timezero, None),
\* ('KE0', retardation_voltage, False, 0, None)
initial_params(rv) ==
    [C   |-> <<3, 2500000>>,
     T0  |-> FromInt(ClipMin(timezero, timezero)),
     KE0 |-> FromInt(ClipMin(rv, 0))]

\* The values the free parameter C takes in the model: C = 1 / (GridUnit * m).
\* With this unit the model is m * 121 / 1000 and m * 64 / 1000 at the two
\* calibration points, so that the sums of squares stay small integers over
\* 10^6 while the grid is about 0.6 % fine around the optimum.
GridUnit ==
    Lcm((tof_peaks_ns[1] - timezero) * (tof_peaks_ns[1] - timezero),
        (tof_peaks_ns[2] - timezero) * (tof_peaks_ns[2] - timezero)) \div 1000

CandidateC == {<<1, GridUnit * m>> : m \in 1..MaxGrid}

\* the retardation voltages of the files of the model, clipped
KE0Values == 0..(2 * MaxVolt)

\* sum of squared residuals of every candidate, for every value of the fixed KE0
Chi2Table ==
    [k \in KE0Values, c \in CandidateC |->
        RSumSq(residuals([initial_params(k) EXCEPT !.C = c], tof_peaks_ns, eke_peaks_ev))]

minimizeNotRun(params) == params

\* lmfit.minimize with the least-squares method: the parameters, C alone varied
\* over its range C > 0, at which the sum of squared residuals is least
minimize(params) ==
    LET k    == params.KE0[1]
        best == CHOOSE c \in CandidateC :
                    \A d \in CandidateC : RLeq(Chi2Table[k, c], Chi2Table[k, d])
    IN  [params EXCEPT !.C = best]

FitTable == [k \in KE0Values |-> minimize(initial_params(k))]

CalibrationFit ==
    /\ pc = "fit"
    /\ LET fit_params == FitTable[ClipMin(retardation_voltage, 0)]
       IN  /\ propconst' = fit_params.C
           /\ timezero_fit' = fit_params.T0
           /\ ke0' = fit_params.KE0
    /\ pc' = "transform"
    /\ UNCHANGED <<h5, raised, stdout, loadVars, sepVars, avgVars, retardation_voltage,
                   ekeVars, backVars>>

(***************************************************************************)
(* Lines 81-100: the coordinate and Jacobian functions; they read the      *)
(* globals propconst, timezero and ke0 that the fit has set.               *)
(***************************************************************************)
ke_coordinate_func(tof) ==
    [i \in 1..Len(tof) |->
        IF RLess(timezero_fit, tof[i])
        THEN RAdd(RDiv(RInv(propconst),
                       RPow(RSub(tof[i], timezero_fit), 2)),
                  ke0)
        ELSE RMul(tof[i], NaN)]

ke_jacobian_abs(tof) ==
    [i \in 1..Len(tof) |->
        IF RLess(timezero_fit, tof[i])
        THEN RDiv(RPow(RSub(tof[i], timezero_fit), 3),
                  RMul(FromInt(2), RInv(propconst)))
        ELSE RMul(tof[i], NaN)]

ke_jacobian_func(tof) ==
    [i \in 1..Len(tof) |->
        IF RLess(timezero_fit, tof[i])
        THEN RDiv(RPow(RSub(tof[i], timezero_fit), 3),
                  RMul(FromInt(-2), RInv(propconst)))
        ELSE RMul(tof[i], NaN)]

tof_coordinate_func(ke) ==
    [i \in 1..Len(ke) |->
        IF RLess(ke[i], FromInt(0))
        THEN RAdd(RSqrt(RDiv(RInv(propconst), RSub(ke[i], ke0))), timezero_fit)
        ELSE RMul(ke[i], NaN)]

tof_jacobian_func(ke) ==
    LET tof == tof_coordinate_func(ke)
    IN  [i \in 1..Len(ke) |->
            RDiv(RMul(FromInt(-2), RInv(propconst)),
                 RPow(RSub(tof[i], timezero_fit), 3))]

(***************************************************************************)
(* Lines 103-109: the averaged waveform in the energy coordinate.          *)
(***************************************************************************)
arange(n) == [i \in 1..n |-> FromInt(i - 1)]

Times(x, y) == [i \in 1..Len(x) |-> RMul(x[i], y[i])]

Negate(x) == [i \in 1..Len(x) |-> RNeg(x[i])]

IsFiniteMask(x) == [i \in 1..Len(x) |-> isfinite(x[i])]

\* (each array is bound once, by \E over a singleton, and then indexed)
TransformToEke ==
    /\ pc = "transform"
    /\ tof_ns' = arange(Len(avg_eon_tof))
    /\ \E eke_all \in {ke_coordinate_func(tof_ns')} :
       \E avg_all \in {Times(avg_eon_tof, ke_jacobian_func(tof_ns'))} :
       \E not_nan \in {IsFiniteMask(eke_all)} :
       \E eke_kept \in {BoolIndex(eke_all, not_nan)} :
       \E avg_kept \in {BoolIndex(avg_all, not_nan)} :
          /\ eke_ev' = Reverse(eke_kept)
          /\ avg_eon_eke' = Negate(Reverse(avg_kept))
    /\ pc' = "backwards"
    /\ UNCHANGED <<h5, raised, stdout, loadVars, sepVars, avgVars, retardation_voltage,
                   fitVars, backVars>>

(***************************************************************************)
(* Lines 112-113: transform backwards.                                     *)
(***************************************************************************)
TransformBackwards ==
    /\ pc = "backwards"
    /\ _tof_ns' = tof_coordinate_func(eke_ev)
    /\ _avg_eon_tof' = Times(avg_eon_eke, tof_jacobian_func(eke_ev))
    /\ pc' = "done"
    /\ UNCHANGED <<h5, raised, stdout, loadVars, sepVars, avgVars, retardation_voltage,
                   fitVars, ekeVars>>

(***************************************************************************)
(* Stages that have run.                                                   *)
(***************************************************************************)
Separated   == pc \in {"average", "voltage", "fit", "transform", "backwards", "done"}
Averaged    == pc \in {"voltage", "fit", "transform", "backwards", "done"}
VoltageRead == pc \in {"fit", "transform", "backwards", "done"}
Fitted      == pc \in {"transform", "backwards", "done"}
Transformed == pc \in {"backwards", "done"}

Next ==
    \/ LoadData
    \/ SeparateShots
    \/ AverageShots
    \/ ReadRetardationVoltage
    \/ CalibrationFit
    \/ TransformToEke
    \/ TransformBackwards

Spec == Init /\ [][Next]_vars
(***************************************************************************)
(* The properties.                                                         *)
(***************************************************************************)
ShotIndices == 1..Len(bunches)

ForegroundSet == {i \in ShotIndices : foreground_shots[i]}
BackgroundSet == {i \in ShotIndices : background_shots[i]}

\* the elements of a at the indices of S, in their order
AtIndices(a, S) ==
    [j \in 1..Cardinality(S) |-> a[CHOOSE i \in S : Cardinality({m \in S : m <= i}) = j]]

\* C1: for a periodicity marker N > 1, a shot is in the background subset iff its
\* bunch number is divisible by N and in the foreground subset otherwise; the two
\* subsets are disjoint, their union is every shot, and the two waveform subsets
\* are the waveforms of these shots.
C1_Partition ==
    (Separated /\ background_period > 1) =>
        /\ \A i \in ShotIndices :
              /\ background_shots[i] <=> (bunches[i] % background_period = 0)
              /\ foreground_shots[i] <=> (bunches[i] % background_period # 0)
        /\ ForegroundSet \cap BackgroundSet = {}
        /\ ForegroundSet \cup BackgroundSet = ShotIndices
        /\ eon_tof_back = AtIndices(eon_tof_all, {i \in ShotIndices : bunches[i] % background_period = 0})
        /\ eon_tof_fore = AtIndices(eon_tof_all, {i \in ShotIndices : bunches[i] % background_period # 0})
        /\ Len(eon_tof_fore) + Len(eon_tof_back) = Len(eon_tof_all)

\* a run with N > 1 that has both a background and a foreground shot
C1_Witness ==
    /\ Separated
    /\ background_period > 1
    /\ ForegroundSet # {}
    /\ BackgroundSet # {}

Tolerance == <<1, 1000>>

Close(x, y) == RLeq(RAbs(RSub(x, y)), Tolerance)

MaxEnergy == 3

\* energies on which the inverse transform is tried
Energies == {Rat(n, 2) : n \in (-2 * MaxEnergy)..(2 * MaxEnergy)}

\* C2: round trip of the coordinate transforms: every time t > T0 of the waveform
\* comes back from time -> energy -> time as t, a defined value; every energy on
\* which the inverse is defined comes back from energy -> time -> energy.
C2_RoundTrip ==
    (pc = "done") =>
        /\ \A j \in 1..Len(eke_ev) :
              /\ isfinite(_tof_ns[j])
              /\ Close(_tof_ns[j], FromInt(Len(tof_ns) - j))
        /\ \A e \in Energies :
              isfinite(tof_coordinate_func(<<e>>)[1]) =>
                  Close(ke_coordinate_func(tof_coordinate_func(<<e>>))[1], e)

FittedParams == [C |-> propconst, T0 |-> timezero_fit, KE0 |-> ke0]

\* |model - y| <= y * percent / 100 at every calibration point
FitWithin(percent) ==
    LET m == ke_fit_model(FittedParams, tof_peaks_ns)
    IN  \A i \in 1..Len(tof_peaks_ns) :
            RLeq(RAbs(RSub(m[i], FromInt(eke_peaks_ev[i]))),
                 Rat(eke_peaks_ev[i] * percent, 100))

\* C4 as stated: the fitted model reproduces 20 and 10 at t = 5800 and t = 6100,
\* each within 1 %.
C4_FitWithinOnePercent == Fitted => FitWithin(1)

\* C4 as amended: with KE0 = 0 (the retardation voltage unreadable or not
\* positive) the fitted model reproduces 20 and 10 at t = 5800 and t = 6100, each
\* within 5 %.
C4_FitWithinFivePercent == (Fitted /\ ke0 = FromInt(0)) => FitWithin(5)

\* the fit has run with KE0 = 0 and left a C other than the initial value
C4_Witness ==
    /\ Fitted
    /\ ke0 = FromInt(0)
    /\ propconst # initial_params(0).C
    /\ ~FitWithin(1)

\* C5: with the periodicity marker 1 every shot is background, the foreground
\* subset is empty, and the averaging step ends the run with an error instead of
\* handing an averaged waveform of NaN to the later stages.
C5_EmptyForegroundRejected ==
    (Averaged /\ background_period = 1) =>
        /\ Len(eon_tof_fore) = 0
        /\ \A i \in ShotIndices : background_shots[i]
        /\ raised # "none"

\* C6: the filtered and reversed energy array is strictly increasing.
C6_EkeIncreasing ==
    Transformed =>
        \A i \in 1..(Len(eke_ev) - 1) : RLess(eke_ev[i], eke_ev[i + 1])

\* at least two samples after time zero have been transformed
C6_Witness == Transformed /\ Len(eke_ev) >= 2

AllVoltageFields == {VoltageFields[i] : i \in 1..6}

\* C7: when a voltage or enable field cannot be read the lookup prints the
\* diagnostic, sets retardation_voltage to 0 and the run goes on to the fit; when
\* all six are read retardation_voltage is
\* voltage_1*on_1 + voltage_2*on_2 - voltage_3*on_3.
C7_VoltageFallback ==
    /\ (pc = "voltage") => ENABLED ReadRetardationVoltage
    /\ VoltageRead =>
        /\ raised = "none"
        /\ (pc = "fit") => ENABLED CalibrationFit
        /\ IF AllVoltageFields \subseteq DOMAIN h5
           THEN /\ retardation_voltage =
                      h5["endstation/MagneticBottle/voltage_ch1"]
                          * h5["endstation/MagneticBottle/ch1_is_enabled"]
                    + h5["endstation/MagneticBottle/voltage_ch2"]
                          * h5["endstation/MagneticBottle/ch2_is_enabled"]
                    - h5["endstation/MagneticBottle/voltage_ch3"]
                          * h5["endstation/MagneticBottle/ch3_is_enabled"]
                /\ stdout = <<>>
           ELSE /\ retardation_voltage = 0
                /\ Len(stdout) = 2
                /\ stdout[1] = "Cannot determine retardation voltage from files. Following exception occured:"
                /\ stdout[2] \in AllVoltageFields \ DOMAIN h5

\* a file with some but not all of the fields, after the fit has run
C7_Witness ==
    /\ Fitted
    /\ AllVoltageFields \cap DOMAIN h5 # {}
    /\ ~(AllVoltageFields \subseteq DOMAIN h5)
    /\ retardation_voltage = 0

\* C8: the inverse transform returns a finite time for every energy below KE0 and
\* the undefined value for every other energy.
C8_InverseDomain ==
    Fitted =>
        \A e \in Energies :
            IF RLess(e, ke0)
            THEN isfinite(tof_coordinate_func(<<e>>)[1])
            ELSE isnan(tof_coordinate_func(<<e>>)[1])

SampleTimes == {FromInt(timezero + k) : k \in 1..(MaxTail + 1)}

\* C9: each Jacobian function returns an absolute value: ke_jacobian_func(t) >= 0
\* for every time t > T0, and tof_jacobian_func(e) >= 0 for every energy on which
\* the inverse transform is defined.
C9_JacobianNonNegative ==
    Fitted =>
        /\ \A t \in SampleTimes : RLeq(FromInt(0), ke_jacobian_func(<<t>>)[1])
        /\ \A e \in Energies :
              isfinite(tof_coordinate_func(<<e>>)[1]) =>
                  RLeq(FromInt(0), tof_jacobian_func(<<e>>)[1])

\* the positive factor C * (t - T0)^3 / 2 of sample number t
AmplitudeFactor(t) ==
    RDiv(RMul(propconst, RPow(RSub(FromInt(t), timezero_fit), 3)), FromInt(2))

\* C10: the samples that survive the filter are those with t > T0, and the
\* amplitude of each in the energy coordinate is avg_eon_tof[t] times the positive
\* factor C * (t - T0)^3 / 2, so it has the sign of avg_eon_tof[t].
C10_AmplitudeSign ==
    Transformed =>
        /\ Len(avg_eon_eke) = Cardinality({t \in 0..(Len(avg_eon_tof) - 1) : t > timezero})
        /\ \A j \in 1..Len(avg_eon_eke) :
              LET t == Len(avg_eon_tof) - j
              IN  /\ t > timezero
                  /\ RLess(FromInt(0), AmplitudeFactor(t))
                  /\ avg_eon_eke[j] = RMul(avg_eon_tof[t + 1], AmplitudeFactor(t))
                  /\ Sign(avg_eon_eke[j][1]) = Sign(avg_eon_tof[t + 1][1])

\* a transformed spectrum with a negative and a positive amplitude
C10_Witness ==
    /\ Transformed
    /\ \E j \in 1..Len(avg_eon_eke) : isfinite(avg_eon_eke[j]) /\ avg_eon_eke[j][1] < 0
    /\ \E j \in 1..Len(avg_eon_eke) : isfinite(avg_eon_eke[j]) /\ avg_eon_eke[j][1] > 0
====
